---- MODULE Spec2Model ----
(***************************************************************************)
(* Model of computeSales.py: main() loads a price catalogue and a list of  *)
(* sale records from two JSON files, builds a title -> price dictionary,   *)
(* folds the sale records into (total_cost, errors), prints a summary and  *)
(* writes SalesResults.txt.                                                *)
(*                                                                         *)
(* JSON values are tagged records: t is the Python type json.load gives    *)
(* (null -> NoneType, bool, int, str, list, dict) and v the value.         *)
(* Numbers are integers: a float is modelled by an integer of the same     *)
(* value, and the float accumulator total_cost by an integer.  Wall-clock  *)
(* timing (time.time) takes no part in any decision and is left out.       *)
(***************************************************************************)
EXTENDS Integers, Sequences, FiniteSets, TLC

(* ---------------------------- bounds ----------------------------------- *)
MaxProducts == 2   \* longest product array in the catalogue file
MaxSales == 2      \* longest sale array in the sales file
MaxArgc == 4       \* largest len(sys.argv) tried

(* ------------------------- JSON / Python values ------------------------ *)
JNull == [t |-> "null"]
JBool(b) == [t |-> "bool", v |-> b]
JInt(n) == [t |-> "int", v |-> n]
JStr(s) == [t |-> "str", v |-> s]
JList(s) == [t |-> "list", v |-> s]
JObj(f) == [t |-> "obj", v |-> f]

\* Python's None; json.load maps the JSON document `null` to it as well.
None == JNull

\* `key in container` for a str key: dict -> key test, list -> element test,
\* NoneType/bool/int -> TypeError (argument is not iterable).
PyIn(key, c) ==
  CASE c.t = "obj" -> IF key \in DOMAIN c.v THEN "True" ELSE "False"
    [] c.t = "list" -> IF \E i \in 1..Len(c.v) : c.v[i] = JStr(key)
                       THEN "True" ELSE "False"
    [] c.t \in {"null", "bool", "int"} -> "TypeError"

\* container[key] for a str key: only a dict can be indexed by a str; a list
\* raises TypeError (the only other container that passes the `in` tests).
PyGetItem(c, key) ==
  IF c.t = "obj" /\ key \in DOMAIN c.v
  THEN [exc |-> "none", val |-> c.v[key], text |-> ""]
  ELSE [exc |-> "TypeError", val |-> None,
        text |-> "list indices must be integers or slices, not str"]

\* hash(x) raises TypeError for list and dict.
PyHashable(x) == x.t \notin {"list", "obj"}

\* len(x): defined for list, dict and str; TypeError otherwise.
PyLen(x) ==
  CASE x.t = "list" -> [exc |-> "none", val |-> Len(x.v)]
    [] x.t = "obj" -> [exc |-> "none", val |-> Cardinality(DOMAIN x.v)]
    [] x.t \in {"null", "bool", "int"} -> [exc |-> "TypeError", val |-> 0]

\* isinstance(x, (int, float)): bool is a subclass of int.
IsNumber(x) == x.t \in {"int", "bool"}

\* the numeric value of an int or bool operand (True == 1, False == 0).
NumVal(x) == IF x.t = "bool" THEN (IF x.v THEN 1 ELSE 0) ELSE x.v

RECURSIVE RepeatStr(_, _)
RepeatStr(s, n) == IF n <= 0 THEN "" ELSE s \o RepeatStr(s, n - 1)

\* price * quantity, quantity being an int or bool (it passed validation):
\* number * number, str * int is repetition, None and dict raise TypeError.
PyMul(a, q) ==
  CASE IsNumber(a) -> [exc |-> "none", val |-> JInt(NumVal(a) * NumVal(q))]
    [] a.t = "str" -> [exc |-> "none", val |-> JStr(RepeatStr(a.v, NumVal(q)))]
    [] a.t \in {"null", "obj"} -> [exc |-> "TypeError", val |-> None]

\* total_cost += sale_cost with a float on the left: only a number can be
\* added to a float.
PyAddFloat(total, c) ==
  IF IsNumber(c) THEN [exc |-> "none", val |-> total + NumVal(c)]
  ELSE [exc |-> "TypeError", val |-> total]

\* str(type(x)) as it appears in an f-string.
TypeName(x) ==
  CASE x.t = "null" -> "<class 'NoneType'>"
    [] x.t = "bool" -> "<class 'bool'>"
    [] x.t = "int" -> "<class 'int'>"
    [] x.t = "str" -> "<class 'str'>"
    [] x.t = "list" -> "<class 'list'>"
    [] x.t = "obj" -> "<class 'dict'>"

\* d[k] = v on a dict.
DictSet(d, k, val) == [x \in (DOMAIN d) \cup {k} |-> IF x = k THEN val ELSE d[x]]

EmptyDict == <<>>
(* ------------------------------ Loader -------------------------------- *)
\* States of an input file on disk.
FileMissing == [k |-> "missing"]
FileBadJson == [k |-> "badjson"]
FileUnreadable == [k |-> "unreadable"]
FileJson(data) == [k |-> "json", data |-> data]

\* a printed "ERROR: ..." line of load_json_file, naming the file.
ErrorLine(filepath, why) == [k |-> "ERROR", file |-> filepath, why |-> why]

\* load_json_file(filepath): the parsed document, or None after printing an
\* ERROR line.  ret is the return value, out the lines printed.
LoadJsonFile(filepath, f) ==
  CASE f.k = "json" -> [ret |-> f.data, out |-> <<>>]
    [] f.k = "missing" ->
         [ret |-> None, out |-> <<ErrorLine(filepath, "not found")>>]
    [] f.k = "badjson" ->
         [ret |-> None, out |-> <<ErrorLine(filepath, "Invalid JSON format")>>]
    [] f.k = "unreadable" ->
         [ret |-> None, out |-> <<ErrorLine(filepath, "Could not read file")>>]

(* -------------------------- Catalog Builder --------------------------- *)
\* the loop of build_price_catalogue from element i on; exc is the exception
\* that leaves the function ("none": it returns cat).
RECURSIVE BuildFrom(_, _, _)
BuildFrom(items, i, cat) ==
  IF i > Len(items) THEN [exc |-> "none", cat |-> cat]
  ELSE
    LET product == items[i]
        hasTitle == PyIn("title", product)
        hasPrice == PyIn("price", product)
        title == PyGetItem(product, "title")
        price == PyGetItem(product, "price")
    IN IF hasTitle = "TypeError" THEN [exc |-> "TypeError", cat |-> cat]
       ELSE IF hasTitle = "False" THEN BuildFrom(items, i + 1, cat)
       ELSE IF hasPrice = "TypeError" THEN [exc |-> "TypeError", cat |-> cat]
       ELSE IF hasPrice = "False" THEN BuildFrom(items, i + 1, cat)
       ELSE IF title.exc # "none" \/ price.exc # "none"
            THEN [exc |-> "TypeError", cat |-> cat]
       ELSE IF ~PyHashable(title.val) THEN [exc |-> "TypeError", cat |-> cat]
       ELSE BuildFrom(items, i + 1, DictSet(cat, title.val, price.val))

\* build_price_catalogue(products); iterating a non-iterable is a TypeError.
BuildPriceCatalogue(products) ==
  IF products.t = "list" THEN BuildFrom(products.v, 1, EmptyDict)
  ELSE [exc |-> "TypeError", cat |-> EmptyDict]

(* -------------------------- Sales Aggregator -------------------------- *)
RequiredFields == <<"SALE_ID", "SALE_Date", "Product", "Quantity">>

\* the `for field in required_fields` loop: the first missing field, "" when
\* none is missing; the `in` test is outside the try block.
RECURSIVE FirstMissing(_, _)
FirstMissing(sale, i) ==
  IF i > Len(RequiredFields) THEN [exc |-> "none", field |-> ""]
  ELSE LET r == PyIn(RequiredFields[i], sale)
       IN IF r = "TypeError" THEN [exc |-> "TypeError", field |-> ""]
          ELSE IF r = "False" THEN [exc |-> "none", field |-> RequiredFields[i]]
          ELSE FirstMissing(sale, i + 1)

\* validate_sale_item without its negative-quantity test (lines 87-89).
ValidateSaleItem_NoNegativeCheck(sale, line_num) ==
  LET missing == FirstMissing(sale, 1)
      quantity == PyGetItem(sale, "Quantity")
  IN IF missing.exc # "none"
       THEN [exc |-> missing.exc, ok |-> FALSE, msg |-> ""]
     ELSE IF missing.field # ""
       THEN [exc |-> "none", ok |-> FALSE,
             msg |-> "Missing required field '" \o missing.field \o "'"]
     ELSE IF quantity.exc # "none"
       THEN [exc |-> "none", ok |-> FALSE,
             msg |-> "Invalid quantity value: " \o quantity.text]
     ELSE IF ~IsNumber(quantity.val)
       THEN [exc |-> "none", ok |-> FALSE,
             msg |-> "Quantity must be a number, got " \o TypeName(quantity.val)]
     ELSE [exc |-> "none", ok |-> TRUE, msg |-> ""]

\* validate_sale_item(sale, line_num) -> (is_valid, error_message), or an
\* exception that leaves the function.
ValidateSaleItem(sale, line_num) ==
  LET missing == FirstMissing(sale, 1)
      quantity == PyGetItem(sale, "Quantity")
  IN IF missing.exc # "none"
       THEN [exc |-> missing.exc, ok |-> FALSE, msg |-> ""]
     ELSE IF missing.field # ""
       THEN [exc |-> "none", ok |-> FALSE,
             msg |-> "Missing required field '" \o missing.field \o "'"]
     ELSE IF quantity.exc # "none"
       THEN [exc |-> "none", ok |-> FALSE,
             msg |-> "Invalid quantity value: " \o quantity.text]
     ELSE IF ~IsNumber(quantity.val)
       THEN [exc |-> "none", ok |-> FALSE,
             msg |-> "Quantity must be a number, got " \o TypeName(quantity.val)]
     ELSE IF NumVal(quantity.val) < 0
       THEN [exc |-> "none", ok |-> FALSE,
             msg |-> "Quantity cannot be negative (got "
                     \o ToString(NumVal(quantity.val)) \o ")"]
     ELSE [exc |-> "none", ok |-> TRUE, msg |-> ""]

\* the error numbered from 0, as enumerate does without its start argument.
SaleError_ZeroBased(idx, reason) == [idx |-> idx - 1, msg |-> reason]

\* f"Sale #{idx}: {reason}", kept as its two holes.
SaleError(idx, reason) == [idx |-> idx, msg |-> reason]

\* a printed f"WARNING: {error}" line.
WarningLine(error) == [k |-> "WARNING", error |-> error]

\* what one iteration of the loop of compute_sales leaves: the total and the
\* error list, the lines printed, the contribution added (at most one) and
\* the exception that leaves the loop ("none": the loop goes on).
Outcome(exc, total, errs, out, added) ==
  [exc |-> exc, total |-> total, errors |-> errs, out |-> out, added |-> added]

\* the warning is printed but the error is not appended to the list.
Rejected_NoAppend(total, errs, error) ==
  Outcome("none", total, errs, <<WarningLine(error)>>, <<>>)

\* errors.append(error); print(f"WARNING: {error}"); continue
Rejected(total, errs, error) ==
  Outcome("none", total, Append(errs, error), <<WarningLine(error)>>, <<>>)

\* one iteration of the loop of compute_sales on record `sale` at 1-based
\* position idx.
ProcessSale(cat, sale, idx, total, errs) ==
  LET valid == ValidateSaleItem(sale, idx)
      raise == Outcome("TypeError", total, errs, <<>>, <<>>)
      product_name == sale.v["Product"]
      quantity == sale.v["Quantity"]
      price == cat[product_name]
      sale_cost == PyMul(price, quantity)
      sum == PyAddFloat(total, sale_cost.val)
  IN IF valid.exc # "none" THEN raise
     ELSE IF ~valid.ok THEN Rejected(total, errs, SaleError(idx, valid.msg))
     ELSE IF ~PyHashable(product_name) THEN raise
     ELSE IF product_name \notin DOMAIN cat
       THEN Rejected(total, errs,
                     SaleError(idx, "Product '" \o product_name.v
                                    \o "' not found in catalogue"))
     ELSE IF sale_cost.exc # "none" THEN raise
     ELSE IF sum.exc # "none" THEN raise
     ELSE Outcome("none", sum.val, errs, <<>>,
                  <<[idx |-> idx, cost |-> NumVal(sale_cost.val)]>>)

(* ------------------------------- inputs -------------------------------- *)
\* Elements tried in the product array: a priced product, the same title at
\* a negative price (prices are not validated), a product whose price is a
\* string, a product without a price, and an array element that is a number.
ProductShapes ==
  { JObj([title |-> JStr("A"), price |-> JInt(10)]),
    JObj([title |-> JStr("A"), price |-> JInt(-5)]),
    JObj([title |-> JStr("B"), price |-> JStr("x")]),
    JObj([title |-> JStr("B")]),
    JInt(5) }

\* a sale record with all four required fields.
Sale(product, quantity) ==
  JObj([SALE_ID |-> JInt(1), SALE_Date |-> JStr("2024-01-01"),
        Product |-> product, Quantity |-> quantity])

\* Elements tried in the sale array: valid sales of A and B, an unknown
\* product, a negative, boolean and string quantity, a record without
\* Quantity, an array element that is a number, and a Product that is a list.
SaleShapes ==
  { Sale(JStr("A"), JInt(2)),
    Sale(JStr("B"), JInt(1)),
    Sale(JStr("Z"), JInt(1)),
    Sale(JStr("A"), JInt(-2)),
    Sale(JStr("A"), JBool(TRUE)),
    Sale(JStr("A"), JStr("3")),
    JObj([SALE_ID |-> JInt(1), SALE_Date |-> JStr("2024-01-01"),
          Product |-> JStr("A")]),
    JInt(5),
    Sale(JList(<<JStr("A")>>), JInt(1)) }

\* all sequences over S of length at most n.
SeqUpTo(S, n) == UNION { [1..m -> S] : m \in 0..n }

\* what a file can be: absent, not JSON, unreadable, or a JSON document that
\* is null, a number, or an array of the given elements.
FileStates(shapes, n) ==
  { FileMissing, FileBadJson, FileUnreadable, FileJson(JNull), FileJson(JInt(5)) }
  \cup { FileJson(JList(a)) : a \in SeqUpTo(shapes, n) }

\* SalesResults.txt as the run finds it (absent or left by an earlier run).
PriorFile == [k |-> "prior"]

(* -------------------------------- state -------------------------------- *)
VARIABLES
  argc,             \* len(sys.argv)
  fsCatalogue,      \* the file sys.argv[1] names
  fsSales,          \* the file sys.argv[2] names
  pc,               \* position in main()
  products,         \* main's products
  sales_records,    \* main's sales_records
  price_catalogue,  \* main's price_catalogue
  idx,              \* compute_sales: 1-based position of the next record
  total_cost,       \* compute_sales: running total
  errors,           \* compute_sales: error list
  contrib,          \* history: the sale costs added to total_cost, in order
  stdout,           \* lines printed
  results_file,     \* SalesResults.txt
  exit_status,      \* process exit status, -1 while running
  exit_at,          \* where the process ended
  raised,           \* function an uncaught exception came from, "" if none
  calls             \* history: functions main has called

vars == <<argc, fsCatalogue, fsSales, pc, products, sales_records,
          price_catalogue, idx, total_cost, errors, contrib, stdout,
          results_file, exit_status, exit_at, raised, calls>>

inputs == <<argc, fsCatalogue, fsSales>>
aggregation == <<idx, total_cost, errors, contrib>>

Init ==
  /\ argc \in 1..MaxArgc
  /\ fsCatalogue \in FileStates(ProductShapes, MaxProducts)
  /\ fsSales \in FileStates(SaleShapes, MaxSales)
  /\ pc = "start"
  /\ products = None
  /\ sales_records = None
  /\ price_catalogue = EmptyDict
  /\ idx = 0
  /\ total_cost = 0
  /\ errors = <<>>
  /\ contrib = <<>>
  /\ stdout = <<>>
  /\ results_file = PriorFile
  /\ exit_status = -1
  /\ exit_at = ""
  /\ raised = ""
  /\ calls = {}

\* sys.exit(status) at the place `at`.
Exit(status, at) ==
  /\ pc' = "exit"
  /\ exit_status' = status
  /\ exit_at' = at

\* an uncaught exception from function f: traceback, exit status 1.
Uncaught(f) ==
  /\ Exit(1, "traceback")
  /\ raised' = f

\* main, argument check and the three progress lines.
CheckArgs ==
  /\ pc = "start"
  /\ IF argc # 3
     THEN /\ stdout' = Append(stdout, [k |-> "usage"])
          /\ Exit(1, "usage")
     ELSE /\ stdout' = stdout \o <<[k |-> "loading", file |-> "catalogue"],
                                   [k |-> "loading", file |-> "sales"],
                                   [k |-> "rule"]>>
          /\ pc' = "load_catalogue"
          /\ UNCHANGED <<exit_status, exit_at>>
  /\ UNCHANGED <<inputs, products, sales_records, price_catalogue,
                 aggregation, results_file, raised, calls>>

\* the catalogue is loaded but the `if products is None` test is missing.
LoadCatalogue_NoExit ==
  /\ pc = "load_catalogue"
  /\ LET r == LoadJsonFile("catalogue", fsCatalogue)
     IN /\ products' = r.ret
        /\ stdout' = stdout \o r.out
        /\ pc' = "load_sales"
        /\ UNCHANGED <<exit_status, exit_at>>
  /\ calls' = calls \cup {"load_json_file"}
  /\ UNCHANGED <<inputs, sales_records, price_catalogue, aggregation,
                 results_file, raised>>

\* products = load_json_file(catalogue_file); exit if None.
LoadCatalogue ==
  /\ pc = "load_catalogue"
  /\ LET r == LoadJsonFile("catalogue", fsCatalogue)
     IN /\ products' = r.ret
        /\ stdout' = stdout \o r.out
        /\ IF r.ret = None
           THEN Exit(1, "catalogue")
           ELSE pc' = "load_sales" /\ UNCHANGED <<exit_status, exit_at>>
  /\ calls' = calls \cup {"load_json_file"}
  /\ UNCHANGED <<inputs, sales_records, price_catalogue, aggregation,
                 results_file, raised>>

\* sales_records = load_json_file(sales_file); exit if None.
LoadSales ==
  /\ pc = "load_sales"
  /\ LET r == LoadJsonFile("sales", fsSales)
     IN /\ sales_records' = r.ret
        /\ stdout' = stdout \o r.out
        /\ IF r.ret = None
           THEN Exit(1, "sales")
           ELSE pc' = "build" /\ UNCHANGED <<exit_status, exit_at>>
  /\ UNCHANGED <<inputs, products, price_catalogue, aggregation,
                 results_file, raised, calls>>

\* price_catalogue = build_price_catalogue(products) and the two count lines.
BuildCatalogue ==
  /\ pc = "build"
  /\ calls' = calls \cup {"build_price_catalogue"}
  /\ LET r == BuildPriceCatalogue(products)
         n == PyLen(sales_records)
     IN IF r.exc # "none"
        THEN /\ Uncaught("build_price_catalogue")
             /\ UNCHANGED <<price_catalogue, stdout>>
        ELSE /\ price_catalogue' = r.cat
             /\ IF n.exc # "none"
                THEN /\ Uncaught("main")
                     /\ stdout' = Append(stdout,
                          [k |-> "loaded", n |-> Cardinality(DOMAIN r.cat)])
                ELSE /\ stdout' = stdout \o
                          <<[k |-> "loaded", n |-> Cardinality(DOMAIN r.cat)],
                            [k |-> "processing", n |-> n.val], [k |-> "rule"]>>
                     /\ pc' = "compute_sales"
                     /\ UNCHANGED <<exit_status, exit_at, raised>>
  /\ UNCHANGED <<inputs, products, sales_records, aggregation, results_file>>

\* compute_sales is called: total_cost = 0.0, errors = [], enumerate from 1.
ComputeEnter ==
  /\ pc = "compute_sales"
  /\ calls' = calls \cup {"compute_sales"}
  /\ idx' = 1
  /\ total_cost' = 0
  /\ errors' = <<>>
  /\ contrib' = <<>>
  /\ pc' = "loop"
  /\ UNCHANGED <<inputs, products, sales_records, price_catalogue, stdout,
                 results_file, exit_status, exit_at, raised>>

\* one iteration of the for loop of compute_sales.
ComputeRecord ==
  /\ pc = "loop"
  /\ idx <= Len(sales_records.v)
  /\ LET r == ProcessSale(price_catalogue, sales_records.v[idx], idx,
                          total_cost, errors)
     IN /\ total_cost' = r.total
        /\ errors' = r.errors
        /\ contrib' = contrib \o r.added
        /\ stdout' = stdout \o r.out
        /\ IF r.exc # "none"
           THEN Uncaught("compute_sales") /\ idx' = idx
           ELSE /\ idx' = idx + 1
                /\ UNCHANGED <<pc, exit_status, exit_at, raised>>
  /\ UNCHANGED <<inputs, products, sales_records, price_catalogue,
                 results_file, calls>>

\* the loop is exhausted: return total_cost, errors.
ComputeReturn ==
  /\ pc = "loop"
  /\ idx > Len(sales_records.v)
  /\ pc' = "display"
  /\ UNCHANGED <<inputs, products, sales_records, price_catalogue,
                 aggregation, stdout, results_file, exit_status, exit_at,
                 raised, calls>>

\* the summary both renderings show: count, total and errors.
Summary(sales_count, total, errs) ==
  [count |-> sales_count, total |-> total, errors |-> errs]

\* display_results(total_cost, elapsed_time, len(sales_records), errors).
DisplayResults ==
  /\ pc = "display"
  /\ calls' = calls \cup {"display_results"}
  /\ LET s == Summary(Len(sales_records.v), total_cost, errors)
     IN stdout' = Append(stdout, [k |-> "summary", count |-> s.count,
                                  total |-> s.total,
                                  nerrors |-> Len(s.errors)])
  /\ pc' = "save"
  /\ UNCHANGED <<inputs, products, sales_records, price_catalogue,
                 aggregation, results_file, exit_status, exit_at, raised>>

\* save_results("SalesResults.txt", ...): the write succeeds, open() fails,
\* or a write fails after the file was truncated; either failure is caught
\* and reported.  main then returns: exit status 0.
SaveResults ==
  /\ pc = "save"
  /\ calls' = calls \cup {"save_results"}
  /\ \E outcome \in {"written", "open fails", "write fails"} :
       CASE outcome = "written" ->
              /\ results_file' = [k |-> "written",
                    body |-> Summary(Len(sales_records.v), total_cost, errors)]
              /\ stdout' = Append(stdout, [k |-> "saved"])
         [] outcome = "open fails" ->
              /\ results_file' = results_file
              /\ stdout' = Append(stdout, ErrorLine("SalesResults.txt",
                                                     "Could not write to file"))
         [] outcome = "write fails" ->
              /\ results_file' = [k |-> "partial"]
              /\ stdout' = Append(stdout, ErrorLine("SalesResults.txt",
                                                     "Could not write to file"))
  /\ Exit(0, "end")
  /\ UNCHANGED <<inputs, products, sales_records, price_catalogue,
                 aggregation, raised>>

Next ==
  \/ CheckArgs
  \/ LoadCatalogue
  \/ LoadSales
  \/ BuildCatalogue
  \/ ComputeEnter
  \/ ComputeRecord
  \/ ComputeReturn
  \/ DisplayResults
  \/ SaveResults

Spec == Init /\ [][Next]_vars

(* ------------------------------ properties ----------------------------- *)
\* compute_sales has returned (total_cost, errors) to main.
Aggregated == pc \in {"display", "save"} \/ (pc = "exit" /\ exit_at = "end")

\* the positions of the records that produced an error / a contribution.
ErrorIdx == { errors[i].idx : i \in 1..Len(errors) }
ContribIdx == { contrib[i].idx : i \in 1..Len(contrib) }

\* the sale array, once loaded as one.
HasSaleArray == sales_records.t = "list"
NumSales == Len(sales_records.v)

\* a record with the four required fields.
HasAllFields(sale) ==
  sale.t = "obj" /\ \A i \in 1..Len(RequiredFields) : RequiredFields[i] \in DOMAIN sale.v

\* Valid as the specification classifies a record: four fields, Quantity a
\* JSON number that is not negative, Product a title of the catalogue.
SpecValid(cat, sale) ==
  /\ HasAllFields(sale)
  /\ sale.v["Quantity"].t = "int"
  /\ sale.v["Quantity"].v >= 0
  /\ sale.v["Product"] \in DOMAIN cat

\* sum of price * quantity over the Valid records among the first n.
RECURSIVE SumValid(_, _, _)
SumValid(cat, recs, n) ==
  IF n = 0 THEN 0
  ELSE SumValid(cat, recs, n - 1)
       + (IF SpecValid(cat, recs[n])
          THEN cat[recs[n].v["Product"]].v * recs[n].v["Quantity"].v
          ELSE 0)

\* C1: after aggregation the total equals the sum of price * quantity over
\* exactly the records the specification classifies Valid; every other
\* record contributes 0.
C1_TotalIsSumOverValid ==
  Aggregated => total_cost = SumValid(price_catalogue, sales_records.v, NumSales)

\* C2: while and after aggregating, every examined record has produced
\* exactly one of an error entry or a contribution to the total, so that
\* len(errors) + contributions = records examined; after aggregation that is
\* the length of the sale array, which is the count both renderings report.
C2_ErrorsPlusValidIsProcessed ==
  /\ pc = "loop" =>
       /\ ErrorIdx \cup ContribIdx = 1..(idx - 1)
       /\ Len(errors) + Len(contrib) = idx - 1
  /\ Aggregated =>
       /\ ErrorIdx \cup ContribIdx = 1..NumSales
       /\ ErrorIdx \cap ContribIdx = {}
       /\ Len(errors) + Len(contrib) = NumSales
  /\ \A i \in 1..Len(stdout) :
       stdout[i].k = "summary" =>
         /\ stdout[i].count = NumSales
         /\ stdout[i].nerrors + Len(contrib) = stdout[i].count
  /\ results_file.k = "written" =>
       /\ results_file.body.count = NumSales
       /\ Len(results_file.body.errors) + Len(contrib) = results_file.body.count

\* C2 witness: a finished run over two records, one rejected and one costed,
\* whose report was written.
C2_Witness ==
  /\ pc = "exit" /\ results_file.k = "written"
  /\ NumSales = 2 /\ Len(errors) = 1 /\ Len(contrib) = 1

\* a fatal error: wrong argument count, or load_json_file failing for either
\* input file.
Fatal ==
  \/ argc # 3
  \/ fsCatalogue.k # "json"
  \/ fsSales.k # "json"

\* C3: a run with a fatal error never reaches build_price_catalogue,
\* compute_sales, display_results or save_results, leaves SalesResults.txt as
\* it found it, and ends with exit status 1.
C3_FatalNoProcessing ==
  Fatal =>
    /\ pc \in {"start", "load_catalogue", "load_sales", "exit"}
    /\ calls \cap {"build_price_catalogue", "compute_sales",
                   "display_results", "save_results"} = {}
    /\ results_file = PriorFile
    /\ \A i \in 1..Len(stdout) : stdout[i].k # "summary"
    /\ pc = "exit" => exit_status = 1

\* C3 witness: the catalogue loaded as a non-empty array, the sales file is
\* not JSON, and the run has ended at the second sys.exit(1).
C3_Witness ==
  /\ pc = "exit" /\ exit_at = "sales" /\ fsSales = FileBadJson
  /\ products.t = "list" /\ Len(products.v) > 0

\* C4: a run with two arguments in which both load_json_file calls returned
\* an array ends with exit status 0.
C4_LoadedRunExitsZero ==
  (pc = "exit" /\ argc = 3 /\ products.t = "list" /\ sales_records.t = "list")
    => exit_status = 0

\* C5: no exception leaves compute_sales, whatever the elements of the sale
\* array and the prices of the catalogue.
C5_NoExceptionLeavesAggregator == raised # "compute_sales"

\* C6 as stated: the running total never decreases.
C6_TotalNeverDecreases == [][total_cost' >= total_cost]_vars

\* the record the loop is about to process is costed at a negative
\* catalogue price.
NegativePriceSale ==
  /\ pc = "loop" /\ idx <= NumSales
  /\ HasAllFields(sales_records.v[idx])
  /\ sales_records.v[idx].v["Product"] \in DOMAIN price_catalogue
  /\ IsNumber(price_catalogue[sales_records.v[idx].v["Product"]])
  /\ NumVal(price_catalogue[sales_records.v[idx].v["Product"]]) < 0

\* C6 amended: the running total starts at 0 and a step makes it smaller
\* only by costing a record whose catalogue price is negative.
C6_TotalDecreasesOnlyOnNegativePrice ==
  /\ [](pc = "loop" /\ idx = 1 => total_cost = 0)
  /\ [][total_cost' < total_cost => NegativePriceSale]_vars

\* C6 witness: two records were costed at non-negative prices and the total
\* grew with each.
C6_Witness ==
  /\ pc = "display" /\ Len(contrib) = 2
  /\ \A i \in 1..2 : contrib[i].cost > 0
  /\ total_cost = contrib[1].cost + contrib[2].cost

C8_ErrorLineBeforeLoaderExit ==
  (pc = "exit" /\ exit_at \in {"catalogue", "sales"}) =>
    \E i \in 1..Len(stdout) : stdout[i].k = "ERROR" /\ stdout[i].file = exit_at

\* C9: build_price_catalogue raises no exception on any product array.
C9_BuilderAlwaysReturns ==
  products.t = "list" => raised # "build_price_catalogue"

\* C10: every examined record with the four fields whose Quantity is not a
\* JSON number has exactly one entry in the error list and no contribution.
C10_NonNumericQuantityRejected ==
  (HasSaleArray /\ idx >= 1) =>
    \A k \in 1..(idx - 1) :
      (HasAllFields(sales_records.v[k]) /\ sales_records.v[k].v["Quantity"].t # "int")
        => /\ Cardinality({ i \in 1..Len(errors) : errors[i].idx = k }) = 1
           /\ k \notin ContribIdx
====
